---- MODULE Spec2Model ----
(***************************************************************************)
(* Model of the format-frenzy scoring service: the comparison-and-scoring *)
(* engine (src/src/scoring.py, src/src/ast_analyzer.py) and the request   *)
(* handlers around it (src/src/main.py).                                   *)
(*                                                                         *)
(* A source text is a sequence of lines; every line is one of a fixed      *)
(* vocabulary of concrete Python lines (quoted beside each table entry).   *)
(* What ast.parse, ast.walk, ast.dump and the regular expressions of the   *)
(* heuristic estimator yield on such a text is tabulated per line          *)
(* (KindNodes, KindSurface); everything the repository's own code computes *)
(* from those is translated from the code.  Floating-point ratios are      *)
(* modelled as exact fractions [n, d].                                     *)
(***************************************************************************)
EXTENDS Integers, Sequences, FiniteSets, TLC

(***************************************************************************)
(* Bounds of the model.                                                    *)
(***************************************************************************)
\* longest body (in statement lines) built from CoreKinds
MaxStmts == 2
\* largest number of trailing comment lines appended to a submission
MaxPad == 7
\* number of comment lines of the long submissions
LongPad == 55
\* number of requests served in one behaviour of the service
MaxRequests == 2
\* number of values of hash(): the width of Python's hash, scaled down
HashRange == 64
\* capacity of the error logger's queue: LogConfig.BUFFER_SIZE
\* (error_logger.py:20) is 100, scaled down so that a full queue is reached
BUFFER_SIZE == 1

(***************************************************************************)
(* Exact fractions.                                                        *)
(***************************************************************************)
\* F(v), with v evaluated once however often F uses it
Let(v, F(_)) == CHOOSE r \in {F(x) : x \in {v}} : TRUE

Frac(n, d) == [n |-> n, d |-> d]
FMul(a, b) ==
  Let(<< a, b >>, LAMBDA p : Frac(p[1].n * p[2].n, p[1].d * p[2].d))
FAdd(a, b) ==
  Let(<< a, b >>,
      LAMBDA p : Frac(p[1].n * p[2].d + p[2].n * p[1].d, p[1].d * p[2].d))
FGt(a, b) == Let(<< a, b >>, LAMBDA p : p[1].n * p[2].d > p[2].n * p[1].d)
FLe(a, b) == ~FGt(a, b)
FEq(a, b) == Let(<< a, b >>, LAMBDA p : p[1].n * p[2].d = p[2].n * p[1].d)
FMax(a, b) == Let(<< a, b >>, LAMBDA p : IF FGt(p[2], p[1]) THEN p[2] ELSE p[1])
FMin(a, b) == Let(<< a, b >>, LAMBDA p : IF FGt(p[1], p[2]) THEN p[2] ELSE p[1])
Abs(i) == IF i < 0 THEN -i ELSE i
Max2(i, j) == IF i > j THEN i ELSE j

(***************************************************************************)
(* Scoring constants (scoring.py:8-17).                                    *)
(***************************************************************************)
EXACT_MATCH_SCORE == 27
HIGH_SIMILARITY_MULTIPLIER == 4
HIGH_SIMILARITY_DIVISOR == 8
HIGH_SIMILARITY_THRESHOLD == Frac(85, 100)
INTERPRETABLE_MULTIPLIER == 1
INTERPRETABLE_DIVISOR == 7
INTERPRETABLE_THRESHOLD == Frac(3, 10)
VALID_WRONG_INTENT_SCORE == 0
GARBAGE_MULTIPLIER == -1
GARBAGE_DIVISOR == 7

\* SYNTAX_PATTERNS (scoring.py:21-27): the names of the five patterns
SYNTAX_PATTERNS == {"function", "class", "import", "loop", "condition"}

(***************************************************************************)
(* The vocabulary of lines.                                                *)
(***************************************************************************)
\* lines that are combined freely into bodies of up to MaxStmts lines
CoreKinds == {"ret_x", "ret_y"}
\* lines that parse on their own
ValidSingles ==
  {"if_x", "for_x", "imp", "imp2", "impfrom", "def_f", "class_C", "call_f",
   "call_attr", "many_x", "expr_x", "expr_y", "blank"}
\* lines that make ast.parse raise SyntaxError wherever they stand
BrokenSingles ==
  {"junk", "bdef", "unbal", "colon", "assign", "bmid", "bfull", "indent",
   "brace", "bracket", "ddef"}
LineKinds == CoreKinds \cup ValidSingles \cup BrokenSingles \cup {"cmt"}

\* A node of a syntax tree: its class name, its identifier field (name, id,
\* module or attr; "" when it has none), its depth below the statement list,
\* whether it carries lineno/col_offset, and its columns.
Node(type, name, depth, pos, col, ecol) ==
  [type |-> type, name |-> name, depth |-> depth, pos |-> pos,
   col |-> col, ecol |-> ecol]

\* What one line looks like to the text heuristics: whether it parses, the
\* SYNTAX_PATTERNS that match in it, whether a CODE_STRUCTURE_KEYWORDS word
\* occurs in it, its counts of ( ) { } [ ], whether it starts with a blank,
\* ends with a colon, matches the assignment pattern, matches the
\* function-default pattern.
Surface(ok, pats, kw, op, cp, ob, cb, os, cs, ind, colon, asg, dd) ==
  [parses |-> ok, patterns |-> pats, keyword |-> kw, lpar |-> op,
   rpar |-> cp, lbrace |-> ob, rbrace |-> cb, lbrack |-> os, rbrack |-> cs,
   indented |-> ind, colon |-> colon, assign |-> asg, defdefault |-> dd]

\* The nodes ast.parse builds for one line, in pre-order (children in field
\* order), without the Module node.
KindNodes(k) ==
  CASE k = "ret_x" ->   \* return x
        << Node("Return", "", 1, TRUE, 0, 8),
          Node("Name", "x", 2, TRUE, 7, 8),
          Node("Load", "", 3, FALSE, 0, 0) >>
    [] k = "ret_y" ->   \* return y
        << Node("Return", "", 1, TRUE, 0, 8),
          Node("Name", "y", 2, TRUE, 7, 8),
          Node("Load", "", 3, FALSE, 0, 0) >>
    [] k = "expr_x" ->   \* x
        << Node("Expr", "", 1, TRUE, 0, 1),
          Node("Name", "x", 2, TRUE, 0, 1),
          Node("Load", "", 3, FALSE, 0, 0) >>
    [] k = "expr_y" ->   \* y
        << Node("Expr", "", 1, TRUE, 0, 1),
          Node("Name", "y", 2, TRUE, 0, 1),
          Node("Load", "", 3, FALSE, 0, 0) >>
    [] k = "if_x" ->   \* if x: pass
        << Node("If", "", 1, TRUE, 0, 10),
          Node("Name", "x", 2, TRUE, 3, 4),
          Node("Load", "", 3, FALSE, 0, 0),
          Node("Pass", "", 2, TRUE, 6, 10) >>
    [] k = "for_x" ->   \* for i in x: pass
        << Node("For", "", 1, TRUE, 0, 16),
          Node("Name", "i", 2, TRUE, 4, 5),
          Node("Store", "", 3, FALSE, 0, 0),
          Node("Name", "x", 2, TRUE, 9, 10),
          Node("Load", "", 3, FALSE, 0, 0),
          Node("Pass", "", 2, TRUE, 12, 16) >>
    [] k = "imp" ->   \* import os
        << Node("Import", "", 1, TRUE, 0, 9),
          Node("alias", "os", 2, TRUE, 7, 9) >>
    [] k = "imp2" ->   \* import os, sys
        << Node("Import", "", 1, TRUE, 0, 14),
          Node("alias", "os", 2, TRUE, 7, 9),
          Node("alias", "sys", 2, TRUE, 11, 14) >>
    [] k = "impfrom" ->   \* from os import path
        << Node("ImportFrom", "os", 1, TRUE, 0, 19),
          Node("alias", "path", 2, TRUE, 15, 19) >>
    [] k = "def_f" ->   \* def f(): pass
        << Node("FunctionDef", "f", 1, TRUE, 0, 13),
          Node("arguments", "", 2, FALSE, 0, 0),
          Node("Pass", "", 2, TRUE, 9, 13) >>
    [] k = "class_C" ->   \* class C: pass
        << Node("ClassDef", "C", 1, TRUE, 0, 13),
          Node("Pass", "", 2, TRUE, 9, 13) >>
    [] k = "call_f" ->   \* f(x)
        << Node("Expr", "", 1, TRUE, 0, 4),
          Node("Call", "", 2, TRUE, 0, 4),
          Node("Name", "f", 3, TRUE, 0, 1),
          Node("Load", "", 4, FALSE, 0, 0),
          Node("Name", "x", 3, TRUE, 2, 3),
          Node("Load", "", 4, FALSE, 0, 0) >>
    [] k = "call_attr" ->   \* x.f()
        << Node("Expr", "", 1, TRUE, 0, 5),
          Node("Call", "", 2, TRUE, 0, 5),
          Node("Attribute", "f", 3, TRUE, 0, 3),
          Node("Name", "x", 4, TRUE, 0, 1),
          Node("Load", "", 5, FALSE, 0, 0),
          Node("Load", "", 4, FALSE, 0, 0) >>
    [] k = "many_x" ->   \* x; x; x; x; x; x
        << Node("Expr", "", 1, TRUE, 0, 1),
          Node("Name", "x", 2, TRUE, 0, 1),
          Node("Load", "", 3, FALSE, 0, 0),
          Node("Expr", "", 1, TRUE, 3, 4),
          Node("Name", "x", 2, TRUE, 3, 4),
          Node("Load", "", 3, FALSE, 0, 0),
          Node("Expr", "", 1, TRUE, 6, 7),
          Node("Name", "x", 2, TRUE, 6, 7),
          Node("Load", "", 3, FALSE, 0, 0),
          Node("Expr", "", 1, TRUE, 9, 10),
          Node("Name", "x", 2, TRUE, 9, 10),
          Node("Load", "", 3, FALSE, 0, 0),
          Node("Expr", "", 1, TRUE, 12, 13),
          Node("Name", "x", 2, TRUE, 12, 13),
          Node("Load", "", 3, FALSE, 0, 0),
          Node("Expr", "", 1, TRUE, 15, 16),
          Node("Name", "x", 2, TRUE, 15, 16),
          Node("Load", "", 3, FALSE, 0, 0) >>
    [] OTHER -> << >>

\* The surface of one line (re.search of each pattern, str.count, startswith).
KindSurface(k) ==
  CASE k = "ret_x" ->   \* return x
        Surface(TRUE, {}, TRUE, 0, 0, 0, 0, 0, 0, FALSE, FALSE, FALSE, FALSE)
    [] k = "ret_y" ->   \* return y
        Surface(TRUE, {}, TRUE, 0, 0, 0, 0, 0, 0, FALSE, FALSE, FALSE, FALSE)
    [] k = "expr_x" ->   \* x
        Surface(TRUE, {}, FALSE, 0, 0, 0, 0, 0, 0, FALSE, FALSE, FALSE, FALSE)
    [] k = "expr_y" ->   \* y
        Surface(TRUE, {}, FALSE, 0, 0, 0, 0, 0, 0, FALSE, FALSE, FALSE, FALSE)
    [] k = "if_x" ->   \* if x: pass
        Surface(TRUE, {"condition"}, TRUE, 0, 0, 0, 0, 0, 0, FALSE, FALSE, FALSE, FALSE)
    [] k = "for_x" ->   \* for i in x: pass
        Surface(TRUE, {"loop"}, TRUE, 0, 0, 0, 0, 0, 0, FALSE, FALSE, FALSE, FALSE)
    [] k = "imp" ->   \* import os
        Surface(TRUE, {"import"}, TRUE, 0, 0, 0, 0, 0, 0, FALSE, FALSE, FALSE, FALSE)
    [] k = "imp2" ->   \* import os, sys
        Surface(TRUE, {"import"}, TRUE, 0, 0, 0, 0, 0, 0, FALSE, FALSE, FALSE, FALSE)
    [] k = "impfrom" ->   \* from os import path
        Surface(TRUE, {"import"}, TRUE, 0, 0, 0, 0, 0, 0, FALSE, FALSE, FALSE, FALSE)
    [] k = "def_f" ->   \* def f(): pass
        Surface(TRUE, {"function"}, TRUE, 1, 1, 0, 0, 0, 0, FALSE, FALSE, FALSE, FALSE)
    [] k = "class_C" ->   \* class C: pass
        Surface(TRUE, {"class"}, TRUE, 0, 0, 0, 0, 0, 0, FALSE, FALSE, FALSE, FALSE)
    [] k = "call_f" ->   \* f(x)
        Surface(TRUE, {}, FALSE, 1, 1, 0, 0, 0, 0, FALSE, FALSE, FALSE, FALSE)
    [] k = "call_attr" ->   \* x.f()
        Surface(TRUE, {}, FALSE, 1, 1, 0, 0, 0, 0, FALSE, FALSE, FALSE, FALSE)
    [] k = "many_x" ->   \* x; x; x; x; x; x
        Surface(TRUE, {}, FALSE, 0, 0, 0, 0, 0, 0, FALSE, FALSE, FALSE, FALSE)
    [] k = "cmt" ->   \* # c
        Surface(TRUE, {}, FALSE, 0, 0, 0, 0, 0, 0, FALSE, FALSE, FALSE, FALSE)
    [] k = "blank" ->   \* (an empty line)
        Surface(TRUE, {}, FALSE, 0, 0, 0, 0, 0, 0, FALSE, FALSE, FALSE, FALSE)
    [] k = "junk" ->   \* this is not even python code!
        Surface(FALSE, {}, FALSE, 0, 0, 0, 0, 0, 0, FALSE, FALSE, FALSE, FALSE)
    [] k = "bdef" ->   \* def foo() return 1
        Surface(FALSE, {"function"}, TRUE, 1, 1, 0, 0, 0, 0, FALSE, FALSE, FALSE, FALSE)
    [] k = "unbal" ->   \* print('hello'
        Surface(FALSE, {}, FALSE, 1, 0, 0, 0, 0, 0, FALSE, FALSE, FALSE, FALSE)
    [] k = "colon" ->   \* if x:
        Surface(FALSE, {"condition"}, TRUE, 0, 0, 0, 0, 0, 0, FALSE, TRUE, FALSE, FALSE)
    [] k = "assign" ->   \* x = = 1
        Surface(FALSE, {}, FALSE, 0, 0, 0, 0, 0, 0, FALSE, FALSE, TRUE, FALSE)
    [] k = "bmid" ->   \* for i in x: if x: return )
        Surface(FALSE, {"condition", "loop"}, TRUE, 0, 1, 0, 0, 0, 0, FALSE, FALSE, FALSE, FALSE)
    [] k = "bfull" ->   \* def f(x): class C import os for i in x: if x: pass
        Surface(FALSE, {"class", "condition", "function", "import", "loop"}, TRUE, 1, 1, 0, 0, 0, 0, FALSE, FALSE, FALSE, FALSE)
    [] k = "indent" ->   \*   !
        Surface(FALSE, {}, FALSE, 0, 0, 0, 0, 0, 0, TRUE, FALSE, FALSE, FALSE)
    [] k = "brace" ->   \* d = {
        Surface(FALSE, {}, FALSE, 0, 0, 1, 0, 0, 0, FALSE, FALSE, TRUE, FALSE)
    [] k = "bracket" ->   \* a[
        Surface(FALSE, {}, FALSE, 0, 0, 0, 0, 1, 0, FALSE, FALSE, FALSE, FALSE)
    [] k = "ddef" ->   \* def g(a=1) return a
        Surface(FALSE, {"function"}, TRUE, 1, 1, 0, 0, 0, 0, FALSE, FALSE, TRUE, TRUE)

(***************************************************************************)
(* Parsing: ast.parse, ast.walk, ast.dump.                                 *)
(***************************************************************************)
\* ast.parse(code) raises SyntaxError
RaisesSyntaxError(code) ==
  \E i \in 1..Len(code) : ~KindSurface(code[i]).parses

\* the nodes of the statements on lines from..Len(code), in pre-order, each
\* with the number of its line
RECURSIVE StmtNodes(_, _)
StmtNodes(code, from) ==
  IF from > Len(code) THEN << >>
  ELSE LET ns == KindNodes(code[from])
       IN  [j \in 1..Len(ns) |->
              [type |-> ns[j].type, name |-> ns[j].name,
               depth |-> ns[j].depth, pos |-> ns[j].pos, line |-> from,
               col |-> ns[j].col, ecol |-> ns[j].ecol]]
           \o StmtNodes(code, from + 1)

\* ast.parse(code) for a code that parses: the Module node, then the nodes
\* of its statements, in pre-order
Parse(code) ==
  << [type |-> "Module", name |-> "", depth |-> 0, pos |-> FALSE,
      line |-> 0, col |-> 0, ecol |-> 0] >> \o StmtNodes(code, 1)

\* the greatest depth of a node of the tree
RECURSIVE TreeDepth(_, _)
TreeDepth(tree, i) ==
  IF i > Len(tree) THEN 0 ELSE Max2(tree[i].depth, TreeDepth(tree, i + 1))

\* ast.walk(tree): breadth first, so level by level, each level in pre-order
RECURSIVE WalkFrom(_, _, _)
WalkFrom(tree, d, maxd) ==
  IF d > maxd THEN << >>
  ELSE SelectSeq(tree, LAMBDA n : n.depth = d) \o WalkFrom(tree, d + 1, maxd)

ast_walk(tree) == WalkFrom(tree, 0, TreeDepth(tree, 1))

\* ast.dump(tree, include_attributes=False): the tree without the position
\* attributes.  The code's dump is a string, which SequenceMatcher aligns
\* character by character; here it is a sequence with one element per
\* node, aligned node by node.  Equality of dumps is the code's; the value
\* of a text similarity is that of the node alignment.
ast_dump(tree) ==
  [i \in 1..Len(tree) |->
     [type |-> tree[i].type, name |-> tree[i].name, depth |-> tree[i].depth]]

(***************************************************************************)
(* ASTFeatureExtractor (scoring.py:29-81).                                 *)
(***************************************************************************)
\* A feature key: a bare class name is Key("", name); f"func:{name}" is
\* Key("func", name), and so on.
Key(prefix, name) == << prefix, name >>

\* Counter.__getitem__ / dict.get(key, 0)
Get(features, key) == IF key \in DOMAIN features THEN features[key] ELSE 0

\* features[key] += 1
Incr(features, key) ==
  [k \in DOMAIN features \cup {key} |->
     IF k = key THEN Get(features, key) + 1 ELSE features[k]]

\* the alias children of the Import node at position i of the pre-order tree
ImportNames(tree, i) ==
  {j \in (i + 1)..Len(tree) :
     /\ tree[j].depth = tree[i].depth + 1
     /\ \A m \in (i + 1)..j : tree[m].depth > tree[i].depth}

\* the keys one node adds besides its class name (scoring.py:41-58), as a
\* sequence; i is the node's position in the pre-order tree
NamedKeys(tree, i) ==
  LET node == tree[i]
  IN  IF node.type = "FunctionDef" THEN << Key("func", node.name) >>
      ELSE IF node.type = "ClassDef" THEN << Key("class", node.name) >>
      ELSE IF node.type = "Import" THEN
        LET js == ImportNames(tree, i)
            RECURSIVE Names(_)
            Names(from) ==
              IF from > Len(tree) THEN << >>
              ELSE IF from \in js
                   THEN << Key("import", tree[from].name) >> \o Names(from + 1)
                   ELSE Names(from + 1)
        IN  Names(i + 1)
      ELSE IF node.type = "ImportFrom"
        THEN << Key("import_from", node.name) >>
      ELSE IF node.type = "Call" /\ i < Len(tree) /\ tree[i + 1].type = "Name"
        THEN << Key("call", tree[i + 1].name) >>
      ELSE << >>

RECURSIVE IncrAll(_, _, _)
IncrAll(features, keys, i) ==
  IF i > Len(keys) THEN features
  ELSE IncrAll(Incr(features, keys[i]), keys, i + 1)

\* the keys counted for the tree, in any order (a Counter is unordered)
RECURSIVE FeatureKeys(_, _)
FeatureKeys(tree, i) ==
  IF i > Len(tree) THEN << >>
  ELSE << Key("", tree[i].type) >> \o NamedKeys(tree, i)
       \o FeatureKeys(tree, i + 1)

\* a variant that counts the class names of the nodes only
extract_features_bare(tree) ==
  [k \in {Key("", tree[i].type) : i \in 1..Len(tree)} |->
     Cardinality({i \in 1..Len(tree) : tree[i].type = k[2]})]

extract_features(tree) ==
  IncrAll([k \in {} |-> 0], FeatureKeys(tree, 1), 1)

\* sum(features.values())
RECURSIVE SumValues(_)
SumValues(features) ==
  IF DOMAIN features = {} THEN 0
  ELSE LET k == CHOOSE y \in DOMAIN features : TRUE
       IN  features[k]
           + SumValues([j \in DOMAIN features \ {k} |-> features[j]])

\* a variant whose denominator leaves out the number of keys
similarity_score_unnormalised(features1, features2) ==
  LET all_keys == DOMAIN features1 \cup DOMAIN features2
      differences ==
        SumValues([k \in all_keys |->
                     Abs(Get(features1, k) - Get(features2, k))])
      total_features == SumValues(features1) + SumValues(features2)
      similarity == Frac(total_features - differences, total_features)
  IN  IF all_keys = {} THEN Frac(1, 1)
      ELSE IF total_features = 0 THEN Frac(1, 1)
      ELSE FMax(Frac(0, 1), FMin(Frac(1, 1), similarity))

\* similarity_score (scoring.py:62-81), as a fraction
similarity_score(features1, features2) ==
  LET all_keys == DOMAIN features1 \cup DOMAIN features2
      differences ==
        SumValues([k \in all_keys |->
                     Abs(Get(features1, k) - Get(features2, k))])
      total_features == SumValues(features1) + SumValues(features2)
      denominator == total_features + Cardinality(all_keys)
      similarity == Frac(denominator - differences, denominator)
  IN  IF all_keys = {} THEN Frac(1, 1)
      ELSE IF total_features = 0 THEN Frac(1, 1)
      ELSE FMax(Frac(0, 1), FMin(Frac(1, 1), similarity))

(***************************************************************************)
(* difflib.SequenceMatcher(None, a, b).ratio()                             *)
(***************************************************************************)
\* length of the longest common run starting at a[i] and b[j] that stays
\* within a[..ahi] and b[..bhi]
RECURSIVE RunLength(_, _, _, _, _, _)
RunLength(a, i, ahi, b, j, bhi) ==
  IF i > ahi \/ j > bhi \/ a[i] # b[j] THEN 0
  ELSE 1 + RunLength(a, i + 1, ahi, b, j + 1, bhi)

\* find_longest_match(alo, ahi, blo, bhi): the longest matching block, the
\* one starting earliest in a and, among those, earliest in b; size 0 when
\* nothing matches
find_longest_match(a, alo, ahi, b, blo, bhi) ==
  LET starts == (alo..ahi) \X (blo..bhi)
      size(p) == RunLength(a, p[1], ahi, b, p[2], bhi)
      bestsize ==
        IF starts = {} THEN 0
        ELSE LET p == CHOOSE q \in starts :
                        \A r \in starts : size(q) >= size(r)
             IN  size(p)
      best == {p \in starts : size(p) = bestsize}
      besti == CHOOSE i \in {p[1] : p \in best} :
                 \A p \in best : i <= p[1]
      bestj == CHOOSE j \in {p[2] : p \in {q \in best : q[1] = besti}} :
                 \A p \in {q \in best : q[1] = besti} : j <= p[2]
  IN  IF bestsize = 0 THEN [i |-> alo, j |-> blo, size |-> 0]
      ELSE [i |-> besti, j |-> bestj, size |-> bestsize]

\* get_matching_blocks: the total size of the matching blocks found by
\* splitting around the longest match, left and right, recursively
RECURSIVE MatchTotal(_, _, _, _, _, _)
MatchTotal(a, alo, ahi, b, blo, bhi) ==
  IF alo > ahi \/ blo > bhi THEN 0
  ELSE LET m == find_longest_match(a, alo, ahi, b, blo, bhi)
       IN  IF m.size = 0 THEN 0
           ELSE m.size
                + MatchTotal(a, alo, m.i - 1, b, blo, m.j - 1)
                + MatchTotal(a, m.i + m.size, ahi, b, m.j + m.size, bhi)

\* ratio(): 2.0 * matches / (len(a) + len(b)), 1.0 when both are empty
SequenceMatcherRatio(a, b) ==
  IF Len(a) + Len(b) = 0 THEN Frac(1, 1)
  ELSE Frac(2 * MatchTotal(a, 1, Len(a), b, 1, Len(b)), Len(a) + Len(b))

(***************************************************************************)
(* The heuristic estimator (scoring.py:83-132).                            *)
(***************************************************************************)
\* analyze_syntax_patterns: the patterns re.search finds in the code
analyze_syntax_patterns(code) ==
  {name \in SYNTAX_PATTERNS :
     \E i \in 1..Len(code) : name \in KindSurface(code[i]).patterns}

\* str.count of one character over the whole code
RECURSIVE CountChar(_, _, _)
CountChar(code, field, i) ==
  IF i > Len(code) THEN 0
  ELSE KindSurface(code[i])[field] + CountChar(code, field, i + 1)

\* a feedback message; the "Missing <count> <type> node(s)" messages carry
\* their count and type
Msg(text) == [text |-> text, count |-> 0, type |-> ""]

\* a variant that applies the floor of an assignment before the factor of
\* the missing indentation
estimate_code_quality_floor_first(code) ==
  LET patterns == analyze_syntax_patterns(code)
      lines == 1..Len(code)
      score0 == Frac(Cardinality(patterns), Cardinality(SYNTAX_PATTERNS))
      no_keyword == ~\E i \in lines : KindSurface(code[i]).keyword
      issues1 ==
        IF no_keyword
        THEN << Msg("No recognizable code structures found") >> ELSE << >>
      score1 == IF no_keyword THEN FMul(score0, Frac(5, 10)) ELSE score0
      issues2 ==
        issues1
        \o (IF CountChar(code, "lpar", 1) # CountChar(code, "rpar", 1)
            THEN << Msg("Unbalanced parentheses") >> ELSE << >>)
        \o (IF CountChar(code, "lbrace", 1) # CountChar(code, "rbrace", 1)
            THEN << Msg("Unbalanced braces") >> ELSE << >>)
        \o (IF CountChar(code, "lbrack", 1) # CountChar(code, "rbrack", 1)
            THEN << Msg("Unbalanced brackets") >> ELSE << >>)
      has_indentation == \E i \in lines : KindSurface(code[i]).indented
      missing_indent ==
        ~has_indentation /\ \E i \in lines : KindSurface(code[i]).colon
      issues ==
        issues2
        \o (IF missing_indent
            THEN << Msg("Missing indentation after blocks") >> ELSE << >>)
      assignment ==
        /\ \E i \in lines : KindSurface(code[i]).assign
        /\ ~\E i \in lines : KindSurface(code[i]).defdefault
      score2 == IF assignment THEN FMax(score1, Frac(3, 10)) ELSE score1
      pattern_score ==
        IF missing_indent THEN FMul(score2, Frac(8, 10)) ELSE score2
  IN  [quality_score |->
         FMul(pattern_score,
              IF issues # << >> THEN Frac(8, 10) ELSE Frac(1, 1)),
       issues |-> issues]

\* estimate_code_quality: [quality_score, issues]
estimate_code_quality(code) ==
  LET patterns == analyze_syntax_patterns(code)
      lines == 1..Len(code)
      score0 == Frac(Cardinality(patterns), Cardinality(SYNTAX_PATTERNS))
      no_keyword == ~\E i \in lines : KindSurface(code[i]).keyword
      issues1 ==
        IF no_keyword
        THEN << Msg("No recognizable code structures found") >> ELSE << >>
      score1 == IF no_keyword THEN FMul(score0, Frac(5, 10)) ELSE score0
      issues2 ==
        issues1
        \o (IF CountChar(code, "lpar", 1) # CountChar(code, "rpar", 1)
            THEN << Msg("Unbalanced parentheses") >> ELSE << >>)
        \o (IF CountChar(code, "lbrace", 1) # CountChar(code, "rbrace", 1)
            THEN << Msg("Unbalanced braces") >> ELSE << >>)
        \o (IF CountChar(code, "lbrack", 1) # CountChar(code, "rbrack", 1)
            THEN << Msg("Unbalanced brackets") >> ELSE << >>)
      has_indentation == \E i \in lines : KindSurface(code[i]).indented
      missing_indent ==
        ~has_indentation /\ \E i \in lines : KindSurface(code[i]).colon
      issues ==
        issues2
        \o (IF missing_indent
            THEN << Msg("Missing indentation after blocks") >> ELSE << >>)
      score2 == IF missing_indent THEN FMul(score1, Frac(8, 10)) ELSE score1
      assignment ==
        /\ \E i \in lines : KindSurface(code[i]).assign
        /\ ~\E i \in lines : KindSurface(code[i]).defdefault
      pattern_score ==
        IF assignment THEN FMax(score2, Frac(3, 10)) ELSE score2
  IN  [quality_score |->
         FMul(pattern_score,
              IF issues # << >> THEN Frac(8, 10) ELSE Frac(1, 1)),
       issues |-> issues]

(***************************************************************************)
(* compare_ast and score_response (scoring.py:134-245).                    *)
(***************************************************************************)
\* Python's None in a column field
None == -1

\* an issue of the feedback
Issue(line, column, end_line, end_column, message) ==
  [line_number |-> line, column |-> column, end_line_number |-> end_line,
   end_column |-> end_column, message |-> message]

\* score_response(exact, score, messages)
score_response(exact, score, messages) ==
  [exact_match |-> exact,
   score |-> score,
   feedback |->
     [message |->
        IF exact THEN "Perfect match!" ELSE "Review your code structure.",
      issues |->
        Let(messages,
            LAMBDA m : [i \in 1..Len(m) |-> Issue(1, None, None, None, m[i])])]]

\* code.strip().splitlines(): the lines without the leading and trailing
\* empty lines
RECURSIVE StripLeading(_)
StripLeading(code) ==
  IF code # << >> /\ Head(code) = "blank" THEN StripLeading(Tail(code))
  ELSE code

RECURSIVE StripTrailing(_)
StripTrailing(code) ==
  IF code # << >> /\ code[Len(code)] = "blank"
  THEN StripTrailing(SubSeq(code, 1, Len(code) - 1))
  ELSE code

strip_splitlines(code) == StripTrailing(StripLeading(code))

\* line_count = max(1, len(user_lines))  (scoring.py:143-145)
line_count(user_code) == Max2(1, Len(strip_splitlines(user_code)))

\* sim_ratio = 0.7 * feature_sim + 0.3 * text_sim  (scoring.py:170)
sim_ratio(feature_sim, text_sim) ==
  FAdd(FMul(Frac(7, 10), feature_sim), FMul(Frac(3, 10), text_sim))

\* the keys of the features that start with "import:"  (scoring.py:182-183)
ImportKeys(features) == {k \in DOMAIN features : k[1] = "import"}

\* the issues of scoring.py:173-185
structural_issues(user_features, correct_features) ==
  (IF Get(user_features, Key("", "Return"))
        < Get(correct_features, Key("", "Return"))
   THEN << Msg("Missing return statements") >> ELSE << >>)
  \o (IF Get(user_features, Key("", "If"))
           < Get(correct_features, Key("", "If"))
      THEN << Msg("Missing conditional statements") >> ELSE << >>)
  \o (IF Get(user_features, Key("", "For"))
           < Get(correct_features, Key("", "For"))
      THEN << Msg("Missing loop structures") >> ELSE << >>)
  \o (IF ImportKeys(correct_features) # {} /\ ImportKeys(user_features) = {}
      THEN << Msg("Missing required imports") >> ELSE << >>)

\* a variant whose upper threshold is compared with >=
rubric_score_ge(ratio, lines) ==
  IF ~FGt(HIGH_SIMILARITY_THRESHOLD, ratio)
  THEN HIGH_SIMILARITY_MULTIPLIER * (lines \div HIGH_SIMILARITY_DIVISOR)
  ELSE IF FGt(ratio, INTERPRETABLE_THRESHOLD)
  THEN INTERPRETABLE_MULTIPLIER * (lines \div INTERPRETABLE_DIVISOR)
  ELSE VALID_WRONG_INTENT_SCORE

\* the score of the parse path by similarity (scoring.py:187-196)
rubric_score(ratio, lines) ==
  IF FGt(ratio, HIGH_SIMILARITY_THRESHOLD)
  THEN HIGH_SIMILARITY_MULTIPLIER * (lines \div HIGH_SIMILARITY_DIVISOR)
  ELSE IF FGt(ratio, INTERPRETABLE_THRESHOLD)
  THEN INTERPRETABLE_MULTIPLIER * (lines \div INTERPRETABLE_DIVISOR)
  ELSE VALID_WRONG_INTENT_SCORE

\* a variant whose garbage tier lost the sign of its score
syntax_error_response_unsigned(user_code) ==
  Let(<< estimate_code_quality(user_code), line_count(user_code) >>,
    LAMBDA p :
      IF FGt(p[1].quality_score, HIGH_SIMILARITY_THRESHOLD)
      THEN score_response(FALSE,
             HIGH_SIMILARITY_MULTIPLIER * (p[2] \div HIGH_SIMILARITY_DIVISOR),
             << Msg("Minor syntax errors") >> \o p[1].issues)
      ELSE IF FGt(p[1].quality_score, INTERPRETABLE_THRESHOLD)
      THEN score_response(FALSE,
             INTERPRETABLE_MULTIPLIER * (p[2] \div INTERPRETABLE_DIVISOR),
             << Msg("Code structure somewhat interpretable, but syntax is invalid") >>
             \o p[1].issues)
      ELSE score_response(FALSE,
             p[2] \div GARBAGE_DIVISOR,
             << Msg("Code is nonsensical or unrecognizable") >>
             \o p[1].issues))

\* a variant that scores every text that does not parse by the high tier
syntax_error_response_high(user_code) ==
  score_response(FALSE,
    HIGH_SIMILARITY_MULTIPLIER
      * (line_count(user_code) \div HIGH_SIMILARITY_DIVISOR),
    << Msg("Minor syntax errors") >>
    \o estimate_code_quality(user_code).issues)

\* the except SyntaxError branch (scoring.py:200-215)
syntax_error_response(user_code) ==
  Let(<< estimate_code_quality(user_code), line_count(user_code) >>,
    LAMBDA p :
      LET quality_score == p[1].quality_score
          issues == p[1].issues
          lines == p[2]
      IN  IF FGt(quality_score, HIGH_SIMILARITY_THRESHOLD)
          THEN score_response(FALSE,
                 HIGH_SIMILARITY_MULTIPLIER
                   * (lines \div HIGH_SIMILARITY_DIVISOR),
                 << Msg("Minor syntax errors") >> \o issues)
          ELSE IF FGt(quality_score, INTERPRETABLE_THRESHOLD)
          THEN score_response(FALSE,
                 INTERPRETABLE_MULTIPLIER * (lines \div INTERPRETABLE_DIVISOR),
                 << Msg("Code structure somewhat interpretable, but syntax is invalid") >>
                 \o issues)
          ELSE score_response(FALSE,
                 GARBAGE_MULTIPLIER * (lines \div GARBAGE_DIVISOR),
                 << Msg("Code is nonsensical or unrecognizable") >> \o issues))

\* the similarity of two texts that parse and whose dumps differ
\* (scoring.py:152-170)
parsed_sim_ratio(user_code, correct_code) ==
  LET user_ast == Parse(user_code)
      correct_ast == Parse(correct_code)
      feature_sim ==
        similarity_score(extract_features(user_ast),
                         extract_features(correct_ast))
      text_sim ==
        SequenceMatcherRatio(ast_dump(user_ast), ast_dump(correct_ast))
  IN  sim_ratio(feature_sim, text_sim)

\* a variant that takes equal features for an exact match
is_exact_match_features(user_ast, correct_ast) ==
  extract_features(user_ast) = extract_features(correct_ast)

\* user_dump == correct_dump  (scoring.py:159-163)
is_exact_match(user_ast, correct_ast) ==
  ast_dump(user_ast) = ast_dump(correct_ast)

\* a variant in which the exact match scores like a wrong intent
exact_response_unscored ==
  score_response(TRUE, VALID_WRONG_INTENT_SCORE, << >>)

\* return score_response(True, EXACT_MATCH_SCORE, [])  (scoring.py:164)
exact_response == score_response(TRUE, EXACT_MATCH_SCORE, << >>)

\* a variant that returns the issues found, even when there are none
issues_or_default_none(issues) == issues

\* issues or ["Structure differs from expected solution"]  (scoring.py:198)
issues_or_default(issues) ==
  IF issues # << >> THEN issues
  ELSE << Msg("Structure differs from expected solution") >>

\* compare_ast(user_code, correct_code): what the call does, "return" with
\* the response, or "raise" with the exception that leaves it
compare_ast(user_code, correct_code) ==
  IF RaisesSyntaxError(user_code) \/ RaisesSyntaxError(correct_code)
  THEN [kind |-> "return", value |-> syntax_error_response(user_code)]
  ELSE
    LET user_ast == Parse(user_code)
        correct_ast == Parse(correct_code)
        user_features == extract_features(user_ast)
        correct_features == extract_features(correct_ast)
        issues == structural_issues(user_features, correct_features)
    IN  IF is_exact_match(user_ast, correct_ast)
        THEN [kind |-> "return", value |-> exact_response]
        ELSE [kind |-> "return",
              value |->
                score_response(FALSE,
                  rubric_score(parsed_sim_ratio(user_code, correct_code),
                               line_count(user_code)),
                  issues_or_default(issues))]

(***************************************************************************)
(* NodeLocator and find_missing_nodes (ast_analyzer.py).                   *)
(***************************************************************************)
\* the exception ast.parse raises on a code: its lineno, offset and msg are
\* determined by the code
SyntaxError(code) == [exc |-> "SyntaxError", source |-> code]

\* node_type -> count over ast.walk(tree)  (ast_analyzer.py:41-47)
CountType(tree, t) == Len(SelectSeq(tree, LAMBDA n : n.type = t))

\* the keys of that dict in insertion order: the node types in the order
\* of their first occurrence in the walk
RECURSIVE TypeOrder(_, _, _)
TypeOrder(walk, i, seen) ==
  IF i > Len(walk) THEN << >>
  ELSE IF walk[i].type \in seen THEN TypeOrder(walk, i + 1, seen)
  ELSE << walk[i].type >> \o TypeOrder(walk, i + 1, seen \cup {walk[i].type})

\* NodeLocator.node_locations[t] after visit(tree): the locations of the
\* nodes of type t that have a lineno, in the order generic_visit reaches
\* them (parents before children, children in field order)
node_locations(tree, t) ==
  LET located == SelectSeq(tree, LAMBDA n : n.type = t /\ n.pos)
  IN  [i \in 1..Len(located) |->
         [lineno |-> located[i].line, col_offset |-> located[i].col,
          end_lineno |-> located[i].line, end_col_offset |-> located[i].ecol]]

\* "Missing {missing_count} {node_type} node(s)"
MissingMsg(missing_count, node_type) ==
  [text |-> "Missing node(s)", count |-> missing_count, type |-> node_type]

\* a variant of missing_issue that also reports a type of which the
\* submission has as many nodes as the reference
missing_issue_le(user_tree, correct_tree, node_type) ==
  LET count == CountType(correct_tree, node_type)
      user_count == CountType(user_tree, node_type)
      locations == node_locations(correct_tree, node_type)
      message == MissingMsg(count - user_count, node_type)
  IN  IF user_count <= count
      THEN IF Len(locations) >= user_count + 1
           THEN LET location == locations[user_count + 1]
                IN  << Issue(location.lineno, location.col_offset,
                             location.end_lineno, location.end_col_offset,
                             message) >>
           ELSE << Issue(1, None, None, None, message) >>
      ELSE << >>

\* a variant of missing_issue that always points at the first node of the
\* type in the reference
missing_issue_first(user_tree, correct_tree, node_type) ==
  LET count == CountType(correct_tree, node_type)
      user_count == CountType(user_tree, node_type)
      locations == node_locations(correct_tree, node_type)
      message == MissingMsg(count - user_count, node_type)
  IN  IF user_count < count
      THEN IF Len(locations) >= 1
           THEN LET location == locations[1]
                IN  << Issue(location.lineno, location.col_offset,
                             location.end_lineno, location.end_col_offset,
                             message) >>
           ELSE << Issue(1, None, None, None, message) >>
      ELSE << >>

\* the issue for one node type of the reference, << >> when the submission
\* has as many  (ast_analyzer.py:56-80)
missing_issue(user_tree, correct_tree, node_type) ==
  LET count == CountType(correct_tree, node_type)
      user_count == CountType(user_tree, node_type)
      locations == node_locations(correct_tree, node_type)
      message == MissingMsg(count - user_count, node_type)
  IN  IF user_count < count
      THEN IF Len(locations) >= user_count + 1
           THEN LET location == locations[user_count + 1]
                IN  << Issue(location.lineno, location.col_offset,
                             location.end_lineno, location.end_col_offset,
                             message) >>
           ELSE << Issue(1, None, None, None, message) >>
      ELSE << >>

RECURSIVE MissingIssues(_, _, _, _)
MissingIssues(user_tree, correct_tree, types, i) ==
  IF i > Len(types) THEN << >>
  ELSE missing_issue(user_tree, correct_tree, types[i])
       \o MissingIssues(user_tree, correct_tree, types, i + 1)

\* find_missing_nodes(user_code, correct_code): "return" with the issues or
\* "raise" with the SyntaxError of the first text that does not parse
find_missing_nodes(user_code, correct_code) ==
  IF RaisesSyntaxError(user_code)
  THEN [kind |-> "raise", value |-> SyntaxError(user_code)]
  ELSE IF RaisesSyntaxError(correct_code)
  THEN [kind |-> "raise", value |-> SyntaxError(correct_code)]
  ELSE LET user_tree == Parse(user_code)
           correct_tree == Parse(correct_code)
       IN  [kind |-> "return",
            value |->
              MissingIssues(user_tree, correct_tree,
                            TypeOrder(ast_walk(correct_tree), 1, {}), 1)]

(***************************************************************************)
(* The request handlers (main.py).                                         *)
(***************************************************************************)
\* result = compare_ast(...), then the missing nodes are appended to its
\* issues (main.py:109-116): "return" with result, or "raise" with the
\* exception that leaves the inner try
scored_result(user_code, correct_code) ==
  Let(<< compare_ast(user_code, correct_code),
         find_missing_nodes(user_code, correct_code) >>,
    LAMBDA p :
      LET compared == p[1]
          missing_nodes == p[2]
          result == compared.value
      IN  IF compared.kind = "raise" THEN compared
          ELSE IF missing_nodes.kind = "raise" THEN missing_nodes
          ELSE IF missing_nodes.value # << >> /\ ~result.exact_match
          THEN [kind |-> "return",
                value |->
                  [result EXCEPT
                     !.feedback.issues = @ \o missing_nodes.value]]
          ELSE [kind |-> "return", value |-> result])

\* the response model ScoreResponse (schemas.py:33-39): the fields without
\* a default, which the constructor requires
ScoreResponseRequired == {"correct", "points", "exact_match", "score"}

\* the keyword arguments check_answer passes to it (main.py:135-142)
ScoreResponseKwargs == {"exact_match", "score", "feedback"}

\* ScoreResponse(**kwargs) validates: no required field is missing
ScoreResponseValid(kwargs) == ScoreResponseRequired \subseteq kwargs

\* the fields of ConstructAnswerItem (schemas.py:9-11)
ConstructAnswerItemFields == {"question_id", "ast_dump"}

\* the lines of the vocabulary in a fixed order, for hashing
KindOrder ==
  << "ret_x", "ret_y", "expr_x", "expr_y", "if_x", "for_x", "imp", "imp2",
     "impfrom", "def_f", "class_C", "call_f", "call_attr", "many_x", "cmt",
     "blank",
     "junk", "bdef", "unbal", "colon", "assign", "bmid", "bfull", "indent",
     "brace", "bracket", "ddef" >>

KindCode(k) == CHOOSE i \in 1..Len(KindOrder) : KindOrder[i] = k

\* hash(str): a fixed-width hash of the text, so that distinct texts can
\* share one value
RECURSIVE HashFrom(_, _, _)
HashFrom(code, i, h) ==
  IF i > Len(code) THEN h
  ELSE HashFrom(code, i + 1, (h * 31 + KindCode(code[i])) % HashRange)

hash(code) == HashFrom(code, 1, 7)

\* cache_key = f"user_{req.question_id}_{hash(req.user_code)}"
CheckCacheKey(question_id, user_code) ==
  << "user", question_id, hash(user_code) >>

\* cache_key = f"correct_{item.question_id}"
ConstructCacheKey(question_id) == << "correct", question_id >>

\* the body of a response that carries no ScoreResponse
NoBody ==
  [exact_match |-> FALSE, score |-> 0,
   feedback |-> [message |-> "", issues |-> << >>]]

\* what a handler answers: the HTTP status, the exception behind an error
\* status, and the body of a 200
Response(status, error, body) ==
  [status |-> status, error |-> error, body |-> body]

NoError == [exc |-> "", source |-> << >>]

\* ErrorLogger.log_error (error_logger.py:34-65): put_nowait, or when the
\* queue is full _write_entry_to_disk, whose I/O error no handler catches
\* (both except clauses name ImportError); raised tells whether log_error
\* raised into its caller
log_error(buf, dsk, entry, write_fails) ==
  IF Len(buf) < BUFFER_SIZE
  THEN [buffer |-> Append(buf, entry), disk |-> dsk, raised |-> FALSE]
  ELSE IF write_fails
  THEN [buffer |-> buf, disk |-> dsk, raised |-> TRUE]
  ELSE [buffer |-> buf, disk |-> Append(dsk, entry), raised |-> FALSE]

(***************************************************************************)
(* State.                                                                  *)
(***************************************************************************)
VARIABLES
  ast_cache,     \* main.py:60, cache key -> cached response body
  buffer,        \* ErrorLogger.buffer, the queued log entries
  disk,          \* the entries written to the log files
  worker_alive,  \* ErrorLogger.worker_thread is still running
  logger,        \* ErrorLogger.stop_requested, the worker's and shutdown's
                 \* entries_to_write and positions, the entries accepted
  compare_calls, \* cache key -> number of times check_answer ran compare_ast
  request,       \* the request being answered
  response,      \* the answer to it
  served,        \* the check-answer requests answered so far, with answers
  nreq,          \* number of requests served
  user_code,     \* the arguments of a direct call of the engine
  correct_code,
  pc,            \* "input" before the call, then the name of what ran
  outcome,       \* what the call did
  prev           \* what the call did before the submission was changed

service_vars == << ast_cache, buffer, disk, worker_alive, logger,
                   compare_calls, request, response, served, nreq >>
engine_vars == << user_code, correct_code, pc, outcome, prev >>
vars == << ast_cache, buffer, disk, worker_alive, logger, compare_calls,
           request, response, served, nreq,
           user_code, correct_code, pc, outcome, prev >>

(***************************************************************************)
(* Inputs.                                                                 *)
(***************************************************************************)
\* p comment lines
Pad(p) == [i \in 1..p |-> "cmt"]

\* two bodies whose similarity to a one-line body is exactly a threshold,
\* and one that is a one-line body followed by a return
BoundaryBodies ==
  {<< "if_x", "imp" >>, << "imp", "imp2", "imp2" >>, << "many_x", "ret_x" >>}

\* a body that does not parse, with a block header that is not followed by
\* an indented line and an assignment on the next line
EstimatorBodies == {<< "colon", "assign" >>}

Bodies ==
  UNION {[1..n -> CoreKinds] : n \in 0..MaxStmts}
  \cup {<< k >> : k \in ValidSingles \cup BrokenSingles}
  \cup BoundaryBodies
  \cup EstimatorBodies

\* the numbers of comment lines: none, enough to bring a short body to the
\* line counts at which the tiers score differently, or many
PadSizes == {0} \cup {p \in 1..MaxPad : p >= MaxPad - 2} \cup {LongPad}

\* submissions: a body, then comment lines
UserTexts == {b \o Pad(p) : b \in Bodies, p \in PadSizes}

\* references
RefTexts == Bodies

QuestionIds == {"q1", "q2"}
ServiceUserTexts == {<< "ret_x" >>, << "ret_y" >>, << "junk" >>}
ServiceRefTexts == {<< "ret_x" >>, << "junk" >>}
ConstructItems ==
  {<< >>}
  \cup {<< [question_id |-> q, ast_dump |-> ast_dump(Parse(<< "ret_x" >>))] >> :
          q \in QuestionIds}

NoOutcome == [kind |-> "none", value |-> NoBody]
NoRequest == [handler |-> "", question_id |-> "", user_code |-> << >>,
              correct_code |-> << >>]

\* ErrorLogger.__init__ (error_logger.py:24-33): the worker is at the test
\* of its loop, shutdown has not been called
LoggerInit ==
  [stop_requested |-> FALSE,
   worker |-> "loop", entries_to_write |-> << >>,
   shutdown |-> "none", remaining |-> << >>,
   accepted |-> {}]

ServiceInit ==
  /\ ast_cache = [k \in {} |-> NoBody]
  /\ buffer = << >>
  /\ disk = << >>
  /\ worker_alive = TRUE
  /\ logger = LoggerInit
  /\ compare_calls = [k \in {} |-> 0]
  /\ request = NoRequest
  /\ response = Response(0, NoError, NoBody)
  /\ served = {}
  /\ nreq = 0

EngineIdle ==
  /\ user_code = << >>
  /\ correct_code = << >>
  /\ pc = "idle"
  /\ outcome = NoOutcome
  /\ prev = NoOutcome

(***************************************************************************)
(* The service: POST /check-answer and POST /construct-answers.            *)
(***************************************************************************)
\* check_answer (main.py:96-146) on a validated request; write_fails: the
\* log file cannot be written while this request is answered
CheckAnswer(question_id, user, correct, write_fails) ==
  \E result \in {scored_result(user, correct)} :
  \E logged \in
       {log_error(buffer, disk,
                  [question_id |-> question_id, user_code |-> user,
                   error |-> result.value],
                  write_fails)} :
  LET cache_key == CheckCacheKey(question_id, user)
      answer ==
        IF cache_key \in DOMAIN ast_cache
        THEN Response(200, NoError, ast_cache[cache_key])
        ELSE IF result.kind = "raise"
        THEN IF logged.raised
             THEN Response(500, [exc |-> "OSError", source |-> << >>], NoBody)
             ELSE Response(400, result.value, NoBody)
        ELSE IF ~ScoreResponseValid(ScoreResponseKwargs)
        THEN Response(500, [exc |-> "ValidationError", source |-> << >>],
                      NoBody)
        ELSE Response(200, NoError, result.value)
      req == [handler |-> "check_answer", question_id |-> question_id,
              user_code |-> user, correct_code |-> correct]
  IN  /\ nreq < MaxRequests
      /\ nreq' = nreq + 1
      /\ request' = req
      /\ response' = answer
      /\ served' = served \cup {[req |-> req, resp |-> answer]}
      /\ IF cache_key \notin DOMAIN ast_cache /\ result.kind = "raise"
         THEN buffer' = logged.buffer /\ disk' = logged.disk
         ELSE UNCHANGED << buffer, disk >>
      /\ IF /\ cache_key \notin DOMAIN ast_cache
            /\ result.kind = "return"
            /\ ScoreResponseValid(ScoreResponseKwargs)
         THEN ast_cache' =
                [k \in DOMAIN ast_cache \cup {cache_key} |->
                   IF k = cache_key THEN result.value ELSE ast_cache[k]]
         ELSE UNCHANGED ast_cache
      /\ IF cache_key \in DOMAIN ast_cache
         THEN UNCHANGED compare_calls
         ELSE compare_calls' =
                [k \in DOMAIN compare_calls \cup {cache_key} |->
                   IF k = cache_key THEN Get(compare_calls, k) + 1
                   ELSE compare_calls[k]]
      /\ UNCHANGED << worker_alive, logger >>
      /\ UNCHANGED engine_vars

\* construct_answers (main.py:77-94): every item whose key is not cached
\* reads item.correct_code, a field ConstructAnswerItem does not have
ConstructAnswers(items) ==
  LET missed ==
        \E i \in 1..Len(items) :
          ConstructCacheKey(items[i].question_id) \notin DOMAIN ast_cache
      answer ==
        IF missed /\ "correct_code" \notin ConstructAnswerItemFields
        THEN Response(500, [exc |-> "AttributeError", source |-> << >>],
                      NoBody)
        ELSE Response(200, NoError, NoBody)
  IN  /\ nreq < MaxRequests
      /\ nreq' = nreq + 1
      /\ request' = [handler |-> "construct_answers",
                     question_id |->
                       IF items = << >> THEN "" ELSE items[1].question_id,
                     user_code |-> << >>, correct_code |-> << >>]
      /\ response' = answer
      /\ UNCHANGED << ast_cache, buffer, disk, worker_alive, logger,
                      compare_calls, served >>
      /\ UNCHANGED engine_vars

\* one cycle of ErrorLogger._process_buffer (error_logger.py:66-89): the
\* worker takes every queued entry and writes them in order; written is
\* the number of entries on disk when a write fails, and a failed write
\* ends the thread, since its except clause names ImportError
ProcessBuffer(written) ==
  /\ worker_alive
  /\ buffer # << >>
  /\ written \in 0..Len(buffer)
  /\ disk' = disk \o SubSeq(buffer, 1, written)
  /\ buffer' = << >>
  /\ worker_alive' = (written = Len(buffer))
  /\ UNCHANGED << ast_cache, logger, compare_calls, request, response, served,
                  nreq >>
  /\ UNCHANGED engine_vars

Init == ServiceInit /\ EngineIdle

Next ==
  \/ \E q \in QuestionIds, u \in ServiceUserTexts, c \in ServiceRefTexts,
        f \in BOOLEAN : CheckAnswer(q, u, c, f)
  \/ \E items \in ConstructItems : ConstructAnswers(items)
  \/ \E written \in 0..BUFFER_SIZE : ProcessBuffer(written)

Spec == Init /\ [][Next]_vars

(***************************************************************************)
(* The error logger with its worker thread and shutdown                    *)
(* (utils/error_logger.py).                                                *)
(***************************************************************************)
LoggerRest == << ast_cache, compare_calls, request, response, served >>

\* a log_error call that ends before shutdown is called; the timestamp
\* tells the entries apart; write_fails: the log file cannot be written
LogError(question_id, write_fails) ==
  LET entry == [timestamp |-> nreq + 1, question_id |-> question_id]
  IN  \E logged \in {log_error(buffer, disk, entry, write_fails)} :
        /\ nreq < MaxRequests
        /\ logger.shutdown = "none"
        /\ nreq' = nreq + 1
        /\ buffer' = logged.buffer
        /\ disk' = logged.disk
        /\ logger' =
             [logger EXCEPT
                !.accepted = IF logged.raised THEN @ ELSE @ \cup {entry}]
        /\ UNCHANGED worker_alive
        /\ UNCHANGED LoggerRest
        /\ UNCHANGED engine_vars

\* while not self.stop_requested  (error_logger.py:69)
WorkerLoop ==
  /\ worker_alive
  /\ logger.worker = "loop"
  /\ IF logger.stop_requested
     THEN /\ worker_alive' = FALSE
          /\ logger' = [logger EXCEPT !.worker = "done"]
     ELSE /\ logger' = [logger EXCEPT !.worker = "collect"]
          /\ UNCHANGED worker_alive
  /\ UNCHANGED << buffer, disk, nreq >>
  /\ UNCHANGED LoggerRest
  /\ UNCHANGED engine_vars

\* entry = self.buffer.get(...); entries_to_write.append(entry)
\* (error_logger.py:72-76)
WorkerGet ==
  /\ worker_alive
  /\ logger.worker = "collect"
  /\ Len(logger.entries_to_write) < BUFFER_SIZE
  /\ buffer # << >>
  /\ buffer' = Tail(buffer)
  /\ logger' = [logger EXCEPT !.entries_to_write = Append(@, Head(buffer))]
  /\ UNCHANGED << disk, worker_alive, nreq >>
  /\ UNCHANGED LoggerRest
  /\ UNCHANGED engine_vars

\* the collecting loop ends: the list is full or the get timed out on an
\* empty queue  (error_logger.py:72, 77-78)
WorkerCollected ==
  /\ worker_alive
  /\ logger.worker = "collect"
  /\ Len(logger.entries_to_write) >= BUFFER_SIZE \/ buffer = << >>
  /\ logger' = [logger EXCEPT !.worker = "write"]
  /\ UNCHANGED << buffer, disk, worker_alive, nreq >>
  /\ UNCHANGED LoggerRest
  /\ UNCHANGED engine_vars

\* the collected entries are written and the worker sleeps
\* (error_logger.py:79-86); written is the number of entries on disk when a
\* write fails, and a failed write ends the thread with the entries it holds
WorkerWrite(written) ==
  /\ worker_alive
  /\ logger.worker = "write"
  /\ written \in 0..Len(logger.entries_to_write)
  /\ disk' = disk \o SubSeq(logger.entries_to_write, 1, written)
  /\ IF written = Len(logger.entries_to_write)
     THEN /\ logger' = [logger EXCEPT !.entries_to_write = << >>,
                                       !.worker = "loop"]
          /\ UNCHANGED worker_alive
     ELSE /\ logger' = [logger EXCEPT !.worker = "done"]
          /\ worker_alive' = FALSE
  /\ UNCHANGED << buffer, nreq >>
  /\ UNCHANGED LoggerRest
  /\ UNCHANGED engine_vars

\* shutdown(): self.stop_requested = True; if self.worker_thread.is_alive()
\* (error_logger.py:125-126)
ShutdownRequest ==
  /\ logger.shutdown = "none"
  /\ logger' = [logger EXCEPT
                  !.stop_requested = TRUE,
                  !.shutdown = IF worker_alive THEN "join" ELSE "drain"]
  /\ UNCHANGED << buffer, disk, worker_alive, nreq >>
  /\ UNCHANGED LoggerRest
  /\ UNCHANGED engine_vars

\* self.worker_thread.join(timeout=10) returns: the thread has ended, or
\* the ten seconds have passed  (error_logger.py:127)
JoinReturns(timed_out) ==
  /\ logger.shutdown = "join"
  /\ ~worker_alive \/ timed_out
  /\ logger' = [logger EXCEPT !.shutdown = "drain"]
  /\ UNCHANGED << buffer, disk, worker_alive, nreq >>
  /\ UNCHANGED LoggerRest
  /\ UNCHANGED engine_vars

\* entries_to_write.append(self.buffer.get_nowait())
\* (error_logger.py:130-133)
ShutdownGet ==
  /\ logger.shutdown = "drain"
  /\ buffer # << >>
  /\ buffer' = Tail(buffer)
  /\ logger' = [logger EXCEPT !.remaining = Append(@, Head(buffer))]
  /\ UNCHANGED << disk, worker_alive, nreq >>
  /\ UNCHANGED LoggerRest
  /\ UNCHANGED engine_vars

\* the queue is empty: the remaining entries are written and shutdown
\* returns, or a write fails and its error leaves shutdown
\* (error_logger.py:130, 137-138)
ShutdownWrite(written) ==
  /\ logger.shutdown = "drain"
  /\ buffer = << >>
  /\ written \in 0..Len(logger.remaining)
  /\ disk' = disk \o SubSeq(logger.remaining, 1, written)
  /\ logger' =
       [logger EXCEPT
          !.shutdown =
            IF written = Len(logger.remaining) THEN "returned" ELSE "raised"]
  /\ UNCHANGED << buffer, worker_alive, nreq >>
  /\ UNCHANGED LoggerRest
  /\ UNCHANGED engine_vars

NextLogger ==
  \/ \E q \in QuestionIds, f \in BOOLEAN : LogError(q, f)
  \/ WorkerLoop
  \/ WorkerGet
  \/ WorkerCollected
  \/ \E written \in 0..BUFFER_SIZE : WorkerWrite(written)
  \/ ShutdownRequest
  \/ \E timed_out \in BOOLEAN : JoinReturns(timed_out)
  \/ ShutdownGet
  \/ \E written \in 0..MaxRequests : ShutdownWrite(written)

SpecLogger == Init /\ [][NextLogger]_vars

(***************************************************************************)
(* The engine called directly on every pair of texts.                      *)
(***************************************************************************)
InitCompare ==
  /\ ServiceInit
  /\ user_code \in UserTexts
  /\ correct_code \in RefTexts
  /\ pc = "input"
  /\ outcome = NoOutcome
  /\ prev = NoOutcome

\* result = compare_ast(user_code, correct_code)
Compare ==
  /\ pc = "input"
  /\ pc' = "compared"
  /\ outcome' = compare_ast(user_code, correct_code)
  /\ UNCHANGED << user_code, correct_code, prev >>
  /\ UNCHANGED service_vars

\* the body of check_answer's inner try on the same arguments
Score ==
  /\ pc = "input"
  /\ pc' = "scored"
  /\ outcome' = scored_result(user_code, correct_code)
  /\ UNCHANGED << user_code, correct_code, prev >>
  /\ UNCHANGED service_vars

\* the node types of the tree of a code that parses
NodeTypes(code) == {Parse(code)[i].type : i \in 1..Len(Parse(code))}

\* code without its line i
DropLine(code, i) == SubSeq(code, 1, i - 1) \o SubSeq(code, i + 1, Len(code))

\* the line without its return keyword: "return x" becomes "x"
StripReturn(k) ==
  IF k = "ret_x" THEN "expr_x" ELSE IF k = "ret_y" THEN "expr_y" ELSE k

\* the submissions obtained from a submission by removing one occurrence of
\* a construct the reference has: a whole statement line whose statement
\* type occurs in the reference, or the return of a return line
Removals(user, correct) ==
  IF RaisesSyntaxError(user) \/ RaisesSyntaxError(correct) THEN {}
  ELSE {DropLine(user, i) :
          i \in {j \in 1..Len(user) :
                   /\ KindNodes(user[j]) # << >>
                   /\ KindNodes(user[j])[1].type \in NodeTypes(correct)}}
       \cup {[user EXCEPT ![i] = StripReturn(user[i])] :
               i \in {j \in 1..Len(user) :
                        /\ StripReturn(user[j]) # user[j]
                        /\ "Return" \in NodeTypes(correct)}}

\* the submission loses one construct of the reference and is compared again
RemoveConstruct ==
  /\ pc = "compared"
  /\ \E changed \in Removals(user_code, correct_code) :
       /\ user_code' = changed
       /\ outcome' = compare_ast(changed, correct_code)
  /\ pc' = "removed"
  /\ prev' = outcome
  /\ UNCHANGED correct_code
  /\ UNCHANGED service_vars

\* the feature extraction of compare_ast on two texts that parse
\* (scoring.py:148-153)
ExtractFeatures ==
  /\ pc = "input"
  /\ ~RaisesSyntaxError(user_code)
  /\ ~RaisesSyntaxError(correct_code)
  /\ pc' = "extracted"
  /\ outcome' =
       [kind |-> "features",
        value |-> [user_features |-> extract_features(Parse(user_code)),
                   correct_features |->
                     extract_features(Parse(correct_code))]]
  /\ UNCHANGED << user_code, correct_code, prev >>
  /\ UNCHANGED service_vars

\* the dict of a tree without nodes, and a dict whose only count is zero
EmptyFeatures == [k \in {} |-> 0]
ZeroFeatures == [k \in {Key("", "Module")} |-> 0]

\* similarity_score called on two feature dicts, in both argument orders
Similarity ==
  /\ pc = "extracted"
  /\ pc' = "similarity"
  /\ \E features1, features2 \in
         {outcome.value.user_features, outcome.value.correct_features,
          EmptyFeatures, ZeroFeatures} :
       outcome' =
         [kind |-> "similarity",
          value |-> [features1 |-> features1,
                     features2 |-> features2,
                     score |-> similarity_score(features1, features2),
                     swapped |-> similarity_score(features2, features1)]]
  /\ UNCHANGED << user_code, correct_code, prev >>
  /\ UNCHANGED service_vars

\* the except branch of compare_ast estimates the quality of the submission
\* when one of the two texts does not parse (scoring.py:196-198)
EstimateQuality ==
  /\ pc = "input"
  /\ RaisesSyntaxError(user_code) \/ RaisesSyntaxError(correct_code)
  /\ pc' = "estimated"
  /\ outcome' = [kind |-> "quality", value |-> estimate_code_quality(user_code)]
  /\ UNCHANGED << user_code, correct_code, prev >>
  /\ UNCHANGED service_vars

NextCompare ==
  \/ Compare
  \/ Score
  \/ RemoveConstruct
  \/ ExtractFeatures
  \/ Similarity
  \/ EstimateQuality

SpecCompare == InitCompare /\ [][NextCompare]_vars

(***************************************************************************)
(* Properties.                                                             *)
(***************************************************************************)
BothParse == ~RaisesSyntaxError(user_code) /\ ~RaisesSyntaxError(correct_code)

\* compare_ast has run on user_code and correct_code and outcome is its result
Compared == pc \in {"compared", "removed"}

IsExactResult(r) ==
  /\ r.exact_match
  /\ r.score = 27
  /\ r.feedback.issues = << >>

ResultInvariant(r) ==
  /\ r.exact_match => r.feedback.issues = << >> /\ r.score = 27
  /\ ~r.exact_match => r.feedback.issues # << >>

CheckAnswerServed == request.handler = "check_answer"

\* C1 (as claimed): a text that parses, compared against itself, yields
\* exact_match = true, score 27.0 and no issues, from compare_ast and from
\* check_answer alike.
C1_Identity ==
  /\ (Compared /\ user_code = correct_code /\ BothParse)
       => IsExactResult(outcome.value)
  /\ (/\ CheckAnswerServed
      /\ request.user_code = request.correct_code
      /\ ~RaisesSyntaxError(request.user_code))
       => response.status = 200 /\ IsExactResult(response.body)

\* The engine's half of C1: compare_ast(x, x) is an exact match for every
\* x that parses.
EngineIdentity ==
  (Compared /\ user_code = correct_code /\ BothParse)
    => IsExactResult(outcome.value)

C3_SubmissionParseFailureNotFatal ==
  (/\ CheckAnswerServed
   /\ RaisesSyntaxError(request.user_code)
   /\ ~RaisesSyntaxError(request.correct_code))
    => /\ response.status = 200
       /\ ~response.body.exact_match
       /\ response.body.feedback.issues # << >>

\* C4 (as claimed): when the reference does not parse, compare_ast returns
\* no result and raises instead.
C4_ReferenceParseFailureFatal ==
  (Compared /\ RaisesSyntaxError(correct_code)) => outcome.kind = "raise"

\* C5: when both texts parse and the dumps differ, the score is
\* 4 * (lines div 8) for a ratio above 0.85, lines div 7 for a ratio above
\* 0.3 and at most 0.85, and 0 for a ratio of at most 0.3.
C5_Rubric ==
  (/\ Compared
   /\ BothParse
   /\ ast_dump(Parse(user_code)) # ast_dump(Parse(correct_code)))
    => LET ratio == parsed_sim_ratio(user_code, correct_code)
           lines == line_count(user_code)
       IN  /\ lines >= 1
           /\ outcome.value.score =
                IF ratio.n * 100 > 85 * ratio.d THEN 4 * (lines \div 8)
                ELSE IF ratio.n * 10 > 3 * ratio.d THEN lines \div 7
                ELSE 0

\* C5 witness: a ratio of exactly 0.85 on a submission of 8 lines, scored
\* in the middle tier.
C5_Witness ==
  /\ pc = "compared"
  /\ BothParse
  /\ ast_dump(Parse(user_code)) # ast_dump(Parse(correct_code))
  /\ FEq(parsed_sim_ratio(user_code, correct_code), Frac(85, 100))
  /\ line_count(user_code) = 8
  /\ outcome.value.score = 1

\* C6: when a text does not parse, the score is 4 * (lines div 8) for a
\* quality above 0.85, lines div 7 for a quality above 0.3 and at most 0.85,
\* -(lines div 7) for a quality of at most 0.3, and never an exact match.
C6_NoParseRubric ==
  (Compared /\ ~BothParse)
    => LET q == estimate_code_quality(user_code).quality_score
           lines == line_count(user_code)
       IN  /\ ~outcome.value.exact_match
           /\ outcome.value.score =
                IF q.n * 100 > 85 * q.d THEN 4 * (lines \div 8)
                ELSE IF q.n * 10 > 3 * q.d THEN lines \div 7
                ELSE -(lines \div 7)

\* C6 witness: a submission of 8 lines that does not parse, of quality
\* above 0.85, scored 4.
C6_Witness ==
  /\ pc = "compared"
  /\ RaisesSyntaxError(user_code)
  /\ FGt(estimate_code_quality(user_code).quality_score, Frac(85, 100))
  /\ line_count(user_code) = 8
  /\ outcome.value.score = 4

\* the messages of the engine that contain "nonsensical" or "unrecognizable"
MentionsNonsensical(message) ==
  message = Msg("Code is nonsensical or unrecognizable")

\* C7: when the submission does not parse and its quality is at most 0.3,
\* the score is at most 0, exact_match is false and an issue says the code
\* is nonsensical or unrecognizable.
C7_GarbageBound ==
  (/\ Compared
   /\ RaisesSyntaxError(user_code)
   /\ FLe(estimate_code_quality(user_code).quality_score, Frac(3, 10)))
    => /\ outcome.value.score <= 0
       /\ ~outcome.value.exact_match
       /\ \E i \in 1..Len(outcome.value.feedback.issues) :
            MentionsNonsensical(outcome.value.feedback.issues[i].message)

\* C7 witness: a garbage submission of at least 7 lines, scored below 0.
C7_Witness ==
  /\ pc = "compared"
  /\ RaisesSyntaxError(user_code)
  /\ FLe(estimate_code_quality(user_code).quality_score, Frac(3, 10))
  /\ line_count(user_code) >= 7
  /\ outcome.value.score < 0

\* C8: when both texts parse, exact_match is true exactly when the two
\* dumps are equal, whatever the features and the ratio are.
C8_ExactIffDumpEqual ==
  (Compared /\ BothParse)
    => (outcome.value.exact_match
          <=> ast_dump(Parse(user_code)) = ast_dump(Parse(correct_code)))

\* C8 witness: equal features, different dumps, a ratio above 0.85, and no
\* exact match.
C8_Witness ==
  /\ pc = "compared"
  /\ BothParse
  /\ extract_features(Parse(user_code))
       = extract_features(Parse(correct_code))
  /\ ast_dump(Parse(user_code)) # ast_dump(Parse(correct_code))
  /\ FGt(parsed_sim_ratio(user_code, correct_code), Frac(85, 100))
  /\ ~outcome.value.exact_match

\* C9 (as claimed): two check-answer requests with the same question_id,
\* user_code and correct_code get the same answer, whatever was served
\* before or between them.
C9_Determinism ==
  \A a \in served : \A b \in served : a.req = b.req => a.resp = b.resp

MaxLinesUnderExact ==
  (EXACT_MATCH_SCORE \div HIGH_SIMILARITY_MULTIPLIER + 1)
    * HIGH_SIMILARITY_DIVISOR - 1

C11_ExactIsMaximum ==
  (Compared /\ ~outcome.value.exact_match) => outcome.value.score <= 27

\* the result has an issue with this message
HasIssue(r, text) ==
  \E i \in 1..Len(r.feedback.issues) : r.feedback.issues[i].message = Msg(text)

\* the reference has more nodes of this type than the submission
Deficient(node_type) ==
  CountType(Parse(user_code), node_type)
    < CountType(Parse(correct_code), node_type)

DumpsDiffer ==
  BothParse /\ ast_dump(Parse(user_code)) # ast_dump(Parse(correct_code))

\* the messages of C12 alone: a deficit of Return, If or For nodes is
\* reported with its message, and the result is not an exact match
MissingConstructMessages ==
  (Compared /\ DumpsDiffer)
    => /\ ~outcome.value.exact_match
       /\ Deficient("Return")
            => HasIssue(outcome.value, "Missing return statements")
       /\ Deficient("If")
            => HasIssue(outcome.value, "Missing conditional statements")
       /\ Deficient("For")
            => HasIssue(outcome.value, "Missing loop structures")

\* C12 (as claimed): when both texts parse with different dumps and the
\* reference has more Return (If, For) nodes than the submission, the
\* issues name the missing returns (conditionals, loops), exact_match is
\* false and the score is below 27.0.
C12_MissingConstructFeedback ==
  (/\ Compared
   /\ DumpsDiffer
   /\ Deficient("Return") \/ Deficient("If") \/ Deficient("For"))
    => /\ Deficient("Return")
            => HasIssue(outcome.value, "Missing return statements")
       /\ Deficient("If")
            => HasIssue(outcome.value, "Missing conditional statements")
       /\ Deficient("For")
            => HasIssue(outcome.value, "Missing loop structures")
       /\ ~outcome.value.exact_match
       /\ outcome.value.score < 27

\* C13 (as claimed): log_error never raises into check_answer, so a
\* request whose scoring raised SyntaxError is answered with the 400 of
\* its handler, also when the queue is full or the disk cannot be written.
C13_LoggerNeverFails ==
  (/\ CheckAnswerServed
   /\ scored_result(request.user_code, request.correct_code).kind = "raise")
    => response.status = 400 /\ response.error.exc = "SyntaxError"

\* C14 (as claimed): for every cache key, check_answer runs compare_ast at
\* most once, however many requests carry that key.
C14_AtMostOneComputation ==
  \A k \in DOMAIN compare_calls : compare_calls[k] <= 1

\* C15 (as claimed): at the line count of every submission the tiers are
\* ordered: 27 >= 4 * (lines div 8) >= lines div 7 >= 0 >= -(lines div 7).
C15_TierOrder ==
  Compared
    => LET lines == line_count(user_code)
           high == rubric_score(Frac(1, 1), lines)
           interpretable == rubric_score(HIGH_SIMILARITY_THRESHOLD, lines)
           wrong_intent == rubric_score(INTERPRETABLE_THRESHOLD, lines)
           garbage == GARBAGE_MULTIPLIER * (lines \div GARBAGE_DIVISOR)
       IN  /\ lines >= 1
           /\ EXACT_MATCH_SCORE >= high
           /\ high >= interpretable
           /\ interpretable >= wrong_intent
           /\ wrong_intent >= garbage

\* the check_answer body has returned a result for two texts that parse
Scored == pc = "scored" /\ outcome.kind = "return" /\ BothParse

\* the issues find_missing_nodes contributed to the result
MissingNodeIssues(r) ==
  SelectSeq(r.feedback.issues, LAMBDA i : i.message.text = "Missing node(s)")

\* the node types of either tree that the reference has more of
DeficientTypes ==
  {t \in NodeTypes(user_code) \cup NodeTypes(correct_code) : Deficient(t)}

\* C16: for two texts that parse, find_missing_nodes emits exactly one
\* issue for each node type of which the reference tree has more nodes than
\* the submission tree, with the message "Missing <deficit> <type> node(s)"
\* where deficit = reference count - submission count, and no issue for a
\* type that is not deficient.
C16_MissingNodesComplete ==
  Scored
    => LET missing == MissingNodeIssues(outcome.value)
       IN  /\ Len(missing) = Cardinality(DeficientTypes)
           /\ \A t \in DeficientTypes :
                \E i \in 1..Len(missing) :
                  /\ missing[i].message.type = t
                  /\ missing[i].message.count
                       = CountType(Parse(correct_code), t)
                           - CountType(Parse(user_code), t)

\* two types are deficient, one of them by two nodes, and a type both texts
\* have is not
C16_Witness ==
  /\ Scored
  /\ Cardinality(DeficientTypes) >= 2
  /\ \E t \in DeficientTypes :
       CountType(Parse(correct_code), t) - CountType(Parse(user_code), t) >= 2
  /\ \E t \in NodeTypes(user_code) \ {"Module"} : ~Deficient(t)

\* the nodes of a type in the reference tree, parents before children
Occurrences(t) == SelectSeq(Parse(correct_code), LAMBDA n : n.type = t)

\* C17: the issue for a deficient type T has the span of the reference
\* tree's occurrence of T with 0-based index submission_count(T) in
\* pre-order when the reference's location list for T has more than
\* submission_count(T) entries; otherwise it has line 1 and no column, end
\* line or end column.
C17_MissingNodeLocation ==
  Scored
    => LET missing == MissingNodeIssues(outcome.value)
       IN  \A i \in 1..Len(missing) :
             LET t == missing[i].message.type
                 submission_count == CountType(Parse(user_code), t)
                 n == Occurrences(t)[submission_count + 1]
             IN  IF Len(node_locations(Parse(correct_code), t))
                      > submission_count
                 THEN /\ missing[i].line_number = n.line
                      /\ missing[i].column = n.col
                      /\ missing[i].end_line_number = n.line
                      /\ missing[i].end_column = n.ecol
                 ELSE /\ missing[i].line_number = 1
                      /\ missing[i].column = None
                      /\ missing[i].end_line_number = None
                      /\ missing[i].end_column = None

\* an issue points at a later occurrence than the first, on a later line,
\* and another issue has the fallback location
C17_Witness ==
  /\ Scored
  /\ \E i \in 1..Len(MissingNodeIssues(outcome.value)) :
       LET m == MissingNodeIssues(outcome.value)[i]
       IN  /\ CountType(Parse(user_code), m.message.type) >= 1
           /\ m.line_number >= 2
           /\ m.column # None
  /\ \E i \in 1..Len(MissingNodeIssues(outcome.value)) :
       MissingNodeIssues(outcome.value)[i].column = None

\* the keys of plain imports and of from-style imports
AnyImportKeys(features) ==
  {k \in DOMAIN features : k[1] \in {"import", "import_from"}}

\* C18 (as claimed): when both texts parse with different dumps, the
\* reference's features have an import key, plain or from-style, and the
\* submission's have none, the issues contain "Missing required imports".
C18_MissingImportsFeedback ==
  (/\ Compared
   /\ DumpsDiffer
   /\ AnyImportKeys(extract_features(Parse(correct_code))) # {}
   /\ AnyImportKeys(extract_features(Parse(user_code))) = {})
    => HasIssue(outcome.value, "Missing required imports")

\* the node above node j of a tree
Parent(tree, j) ==
  CHOOSE i \in 1..(j - 1) :
    /\ tree[i].depth = tree[j].depth - 1
    /\ \A m \in (i + 1)..j : tree[m].depth > tree[i].depth

\* the count the key must have for the tree, with the given prefix for the
\* names of function definitions
ExpectedCount(tree, k, function_prefix) ==
  LET nodes == 1..Len(tree)
  IN  IF k[1] = ""
        THEN Cardinality({i \in nodes : tree[i].type = k[2]})
      ELSE IF k[1] = function_prefix
        THEN Cardinality({i \in nodes : /\ tree[i].type = "FunctionDef"
                                         /\ tree[i].name = k[2]})
      ELSE IF k[1] = "class"
        THEN Cardinality({i \in nodes : /\ tree[i].type = "ClassDef"
                                         /\ tree[i].name = k[2]})
      ELSE IF k[1] = "import"
        THEN Cardinality({i \in nodes :
                            /\ tree[i].type = "alias"
                            /\ tree[i].name = k[2]
                            /\ tree[Parent(tree, i)].type = "Import"})
      ELSE IF k[1] = "import_from"
        THEN Cardinality({i \in nodes : /\ tree[i].type = "ImportFrom"
                                         /\ tree[i].name = k[2]})
      ELSE IF k[1] = "call"
        THEN Cardinality({i \in nodes :
                            /\ tree[i].type = "Call"
                            /\ i < Len(tree)
                            /\ tree[i + 1].type = "Name"
                            /\ tree[i + 1].name = k[2]})
      ELSE 0

\* every key a tree could give rise to
KeyUniverse(tree) ==
  {"", "func", "function", "class", "import", "import_from", "call"}
    \X ({tree[i].type : i \in 1..Len(tree)}
          \cup {tree[i].name : i \in 1..Len(tree)})

\* the features are the expected counts, and no other key is present
FeaturesAre(features, tree, function_prefix) ==
  /\ \A k \in KeyUniverse(tree) \cup DOMAIN features :
       Get(features, k) = ExpectedCount(tree, k, function_prefix)
  /\ \A k \in DOMAIN features : features[k] >= 1

Extracted == pc = "extracted"

ClaimedSimilarity(a, b) ==
  LET keys == DOMAIN a \cup DOMAIN b
      differences == SumValues([k \in keys |-> Abs(Get(a, k) - Get(b, k))])
      denominator == SumValues(a) + SumValues(b) + Cardinality(keys)
      raw == Frac(denominator - differences, denominator)
  IN  IF keys = {} THEN Frac(1, 1)
      ELSE IF FGt(raw, Frac(1, 1)) THEN Frac(1, 1)
      ELSE IF FGt(Frac(0, 1), raw) THEN Frac(0, 1)
      ELSE raw

\* C20: similarity_score(a, b) is 1 - (sum over the keys of either dict of
\* |a(k) - b(k)|) / (total_a + total_b + number of distinct keys) clamped to
\* [0, 1], and 1 when both are empty; it is symmetric, within [0, 1], and 1
\* when a = b.
C20_Similarity ==
  pc = "similarity"
    => LET r == outcome.value
       IN  /\ FEq(r.score, ClaimedSimilarity(r.features1, r.features2))
           /\ FEq(r.score, r.swapped)
           /\ FLe(Frac(0, 1), r.score) /\ FLe(r.score, Frac(1, 1))
           /\ r.features1 = r.features2 => FEq(r.score, Frac(1, 1))

\* two different non-empty dicts with a similarity strictly between 0 and 1
C20_Witness ==
  /\ pc = "similarity"
  /\ outcome.value.features1 # outcome.value.features2
  /\ DOMAIN outcome.value.features1 # {}
  /\ DOMAIN outcome.value.features2 # {}
  /\ FGt(outcome.value.score, Frac(0, 1))
  /\ FGt(Frac(1, 1), outcome.value.score)

\* the findings of the estimator on the submission
MatchedPatterns ==
  {name \in SYNTAX_PATTERNS :
     \E i \in 1..Len(user_code) : name \in KindSurface(user_code[i]).patterns}
KeywordPresent ==
  \E i \in 1..Len(user_code) : KindSurface(user_code[i]).keyword
MissingIndentation ==
  /\ \A i \in 1..Len(user_code) : ~KindSurface(user_code[i]).indented
  /\ \E i \in 1..Len(user_code) : KindSurface(user_code[i]).colon
AssignmentLike ==
  /\ \E i \in 1..Len(user_code) : KindSurface(user_code[i]).assign
  /\ \A i \in 1..Len(user_code) : ~KindSurface(user_code[i]).defdefault

\* the pattern score of the claim: the fraction of patterns matched, halved
\* without a keyword, times 0.8 on missing indentation, then at least 0.3 on
\* an assignment
ClaimedPatternScore ==
  LET fraction ==
        Frac(Cardinality(MatchedPatterns), Cardinality(SYNTAX_PATTERNS))
      halved ==
        IF KeywordPresent THEN fraction
        ELSE Frac(fraction.n, 2 * fraction.d)
      indented ==
        IF MissingIndentation THEN Frac(8 * halved.n, 10 * halved.d)
        ELSE halved
  IN  IF AssignmentLike /\ FGt(Frac(3, 10), indented) THEN Frac(3, 10)
      ELSE indented

Estimated == pc = "estimated"

TimesWritten(entry) ==
  Cardinality({i \in 1..Len(disk) : disk[i] = entry})

\* C22 (as claimed): once shutdown() has returned, every entry accepted by
\* a log_error call that ended before shutdown was called is on disk exactly
\* once, whatever the worker was doing and whether or not the join timed
\* out.
C22_ShutdownDrains ==
  logger.shutdown = "returned"
    => \A entry \in logger.accepted : TimesWritten(entry) = 1

\* no entry is ever written twice
NoEntryWrittenTwice ==
  \A entry \in logger.accepted : TimesWritten(entry) <= 1

\* without a failed write and with a join that waits for the worker, the
\* entries are all on disk when shutdown has returned
DrainsWhenWorkerEnded ==
  (logger.shutdown = "returned" /\ logger.worker = "done"
     /\ logger.entries_to_write = << >>)
    => \A entry \in logger.accepted : TimesWritten(entry) = 1

\* check_answer never stores a result: the response fails validation before
\* the cache is written, and construct_answers fails before its write
CacheNeverFilled == DOMAIN ast_cache = {}

\* a result that check_answer returns is the result of scoring the
\* request's own texts
ReturnedResultIsFresh ==
  (CheckAnswerServed /\ response.status = 200)
    => response.body
         = scored_result(request.user_code, request.correct_code).value

====
